---- MODULE Spec2Model ----
(***************************************************************************)
(* Model of listgen (src/src/main.rs): expansion of "/" alternatives and   *)
(* "(...)" optional parts of question/answer fields, and the parse ->      *)
(* combine -> sort -> format pipeline of main.                             *)
(*                                                                         *)
(* A string is a sequence of one-character strings.  Rust byte offsets are *)
(* 0-based, the positions used here are 1-based; every character of the    *)
(* modelled alphabet is one byte wide.                                     *)
(***************************************************************************)
EXTENDS Integers, Sequences, FiniteSets, TLC

\* ------------------------------------------------------------------ bounds
MaxLen == 4
MaxSize == 3

\* --------------------------------------------------------------- constants
MAX_DEPTH == 16

\* ---------------------------------------------------------- string helpers
MinOf(S) == CHOOSE x \in S : \A y \in S : x <= y
MaxOf(S) == CHOOSE x \in S : \A y \in S : x >= y

is_whitespace(c) == c \in {" ", "\n"}

\* str::trim
trim(s) ==
  LET keep == {i \in 1..Len(s) : ~is_whitespace(s[i])}
  IN  IF keep = {} THEN <<>> ELSE SubSeq(s, MinOf(keep), MaxOf(keep))

lower_char(c) == IF c = "A" THEN "a" ELSE IF c = "B" THEN "b" ELSE c

\* str::to_lowercase
to_lowercase(s) == [i \in 1..Len(s) |-> lower_char(s[i])]

\* str::contains(char)
contains(s, c) == \E i \in 1..Len(s) : s[i] = c

\* Vec::contains
vec_contains(v, x) == \E i \in 1..Len(v) : v[i] = x

\* byte value of a character, the order str::cmp compares by
byte_of(c) ==
  CASE c = "\n" -> 10 [] c = " " -> 32 [] c = "(" -> 40 [] c = ")" -> 41
    [] c = "/" -> 47 [] c = "=" -> 61 [] c = "A" -> 65 [] c = "B" -> 66
    [] c = "a" -> 97 [] c = "b" -> 98 [] OTHER -> 127

\* ------------------------------------------------------------ divide_string
RECURSIVE divide_from_untrimmed_last(_, _, _)
divide_from_untrimmed_last(string, places, s) ==
  IF places = <<>>
  THEN <<SubSeq(string, s, Len(string))>>
  ELSE <<trim(SubSeq(string, s, Head(places) - 1))>>
         \o divide_from_untrimmed_last(string, Tail(places), Head(places) + 1)

\* the loop of divide_string from slice start s on
RECURSIVE divide_from(_, _, _)
divide_from(string, places, s) ==
  IF places = <<>>
  THEN <<trim(SubSeq(string, s, Len(string)))>>
  ELSE <<trim(SubSeq(string, s, Head(places) - 1))>>
         \o divide_from(string, Tail(places), Head(places) + 1)

divide_string(string, places) == divide_from(string, places, 1)

\* ----------------------------------------------------------- takeout_string
skipped_parens_only(i, places) ==
  \E k \in 1..Len(places) : i = places[k][1] \/ i = places[k][2]

\* the inner loop of takeout_string: is position i inside one of the ranges
skipped(i, places) ==
  \E k \in 1..Len(places) : i >= places[k][1] /\ i <= places[k][2]

RECURSIVE takeout_from(_, _, _)
takeout_from(string, places, i) ==
  IF i > Len(string) THEN <<>>
  ELSE (IF skipped(i, places) THEN <<>> ELSE <<string[i]>>)
         \o takeout_from(string, places, i + 1)

takeout_string(string, places) == takeout_from(string, places, 1)

\* ------------------------------------------------------------- divide_slash
\* the scan of divide_slash; parenthesis_depth is a signed counter that is
\* never floored (i32: it cannot wrap on strings of the modelled lengths)
RECURSIVE slash_places(_, _, _, _)
slash_places(input, n, parenthesis_depth, places) ==
  IF n > Len(input) THEN places
  ELSE IF input[n] = "("
       THEN slash_places(input, n + 1, parenthesis_depth + 1, places)
  ELSE IF input[n] = ")"
       THEN slash_places(input, n + 1, parenthesis_depth - 1, places)
  ELSE IF parenthesis_depth = 0 /\ input[n] = "/"
       THEN slash_places(input, n + 1, parenthesis_depth, Append(places, n))
  ELSE slash_places(input, n + 1, parenthesis_depth, places)

divide_slash(input) == divide_string(input, slash_places(input, 1, 0, <<>>))

\* ------------------------------------------------------- divide_parenthesis
RECURSIVE takeout_parts_first_only(_, _, _, _, _)
takeout_parts_first_only(input, n, parenthesis_depth, start, parts) ==
  IF n > Len(input) \/ parts # <<>> THEN parts
  ELSE IF input[n] = "("
       THEN takeout_parts_first_only(input, n + 1, parenthesis_depth + 1,
                          IF parenthesis_depth = 0 THEN n ELSE start, parts)
  ELSE IF input[n] = ")"
       THEN takeout_parts_first_only(input, n + 1, parenthesis_depth - 1, start,
                          IF parenthesis_depth = 1
                          THEN Append(parts, <<start, n>>) ELSE parts)
  ELSE takeout_parts_first_only(input, n + 1, parenthesis_depth, start, parts)

\* the scan of divide_parenthesis: the ranges of the top-level groups
RECURSIVE takeout_parts(_, _, _, _, _)
takeout_parts(input, n, parenthesis_depth, start, parts) ==
  IF n > Len(input) THEN parts
  ELSE IF input[n] = "("
       THEN takeout_parts(input, n + 1, parenthesis_depth + 1,
                          IF parenthesis_depth = 0 THEN n ELSE start, parts)
  ELSE IF input[n] = ")"
       THEN takeout_parts(input, n + 1, parenthesis_depth - 1, start,
                          IF parenthesis_depth = 1
                          THEN Append(parts, <<start, n>>) ELSE parts)
  ELSE takeout_parts(input, n + 1, parenthesis_depth, start, parts)

divide_parenthesis(input) ==
  IF ~contains(input, "(")
  THEN <<input>>
  ELSE <<input, trim(takeout_string(input, takeout_parts(input, 1, 0, 1, <<>>)))>>

\* ------------------------------------------------------------ recurse_parts
divide(input, slash) ==
  IF slash THEN divide_slash(input) ELSE divide_parenthesis(input)

is_base_no_depth_check(parts, depth) == Len(parts) = 1

\* the condition of line 88
is_base(parts, depth) == Len(parts) = 1 \/ depth >= MAX_DEPTH

append_current(depth, keep) == IF depth = 0 THEN keep ELSE TRUE

RECURSIVE recurse_parts(_, _, _, _)
RECURSIVE recurse_each(_, _, _, _)
recurse_each(parts, slash, depth, keep) ==
  IF parts = <<>> THEN <<>>
  ELSE recurse_parts(Head(parts), slash, depth, keep)
         \o recurse_each(Tail(parts), slash, depth, keep)

recurse_parts(input, slash, depth, keep) ==
  LET parts == divide(input, slash)
  IN  IF is_base(parts, depth)
      THEN parts
      ELSE recurse_each(parts, ~slash, depth + 1, keep)
             \o (IF append_current(depth, keep) THEN <<input>> ELSE <<>>)


\* -------------------------------------------------------------- parse_pairs
\* str::split(char): the pieces between the occurrences of sep
RECURSIVE split_from(_, _, _, _)
split_from(s, sep, from, i) ==
  IF i > Len(s) THEN <<SubSeq(s, from, Len(s))>>
  ELSE IF s[i] = sep
       THEN <<SubSeq(s, from, i - 1)>> \o split_from(s, sep, i + 1, i + 1)
       ELSE split_from(s, sep, from, i + 1)

split(s, sep) == split_from(s, sep, 1, 1)

\* str::lines: split at "\n"; a final empty piece is not a line
lines(text) ==
  LET pieces == split(text, "\n")
  IN  IF pieces[Len(pieces)] = <<>>
      THEN SubSeq(pieces, 1, Len(pieces) - 1)
      ELSE pieces

line_ok_at_least_two(parts) == Len(parts) >= 2

\* the negation of the condition of line 112
line_ok(parts) == Len(parts) = 2

\* the format! of lines 113-116
line_error(sep, line) ==
  <<"Invalid number of seperators '", sep, "' on line: '">> \o line \o <<"'!">>

\* lines 118-129: the ListItem of one well-formed line
parse_line(parts, keep) ==
  LET question == trim(parts[1])
      answer   == trim(parts[2])
  IN  [questions |-> recurse_parts(question, contains(question, "/"), 0, keep),
       answers   |-> recurse_parts(answer, contains(answer, "/"), 0, keep)]

\* ---------------------------------------------------------------- combiner
merge_answers_overwrite(values, answers) ==
  [i \in 1..Len(answers) |-> to_lowercase(answers[i])]

\* lines 198-203: append the answers the key does not hold yet
RECURSIVE merge_answers(_, _)
merge_answers(values, answers) ==
  IF answers = <<>> THEN values
  ELSE LET a == to_lowercase(Head(answers))
       IN  merge_answers(IF vec_contains(values, a) THEN values
                         ELSE Append(values, a), Tail(answers))

\* line 205: the value stored with a key that is inserted
insert_answers(answers) == [i \in 1..Len(answers) |-> to_lowercase(answers[i])]

\* lines 196-206: one iteration of the loop over item.questions
combine_question(res, q, answers) ==
  LET key == to_lowercase(q)
  IN  IF key \in DOMAIN res
      THEN [res EXCEPT ![key] = merge_answers(@, answers)]
      ELSE [k \in DOMAIN res \cup {key} |->
              IF k = key THEN insert_answers(answers) ELSE res[k]]

RECURSIVE combine_questions(_, _, _)
combine_questions(res, questions, answers) ==
  IF questions = <<>> THEN res
  ELSE combine_questions(combine_question(res, Head(questions), answers),
                         Tail(questions), answers)

\* lines 195-207: one iteration of the loop over the items
combine_item(res, item) == combine_questions(res, item.questions, item.answers)

\* -------------------------------------------------------- sorter, formatter
\* str::cmp: lexicographic by byte; -1, 0 or 1
RECURSIVE str_cmp(_, _)
str_cmp(a, b) ==
  IF a = <<>> /\ b = <<>> THEN 0
  ELSE IF a = <<>> THEN -1
  ELSE IF b = <<>> THEN 1
  ELSE IF byte_of(Head(a)) < byte_of(Head(b)) THEN -1
  ELSE IF byte_of(Head(a)) > byte_of(Head(b)) THEN 1
  ELSE str_cmp(Tail(a), Tail(b))

key_cmp_by_length(a, b) ==
  IF Len(a) < Len(b) THEN -1 ELSE IF Len(a) > Len(b) THEN 1 ELSE 0

\* the comparator of line 214
key_cmp(a, b) == str_cmp(to_lowercase(a), to_lowercase(b))

\* slice::sort_by is stable: x goes behind every entry that is not greater
RECURSIVE insert_sorted(_, _)
insert_sorted(sorted, x) ==
  IF sorted = <<>> THEN <<x>>
  ELSE IF key_cmp(Head(sorted)[1], x[1]) > 0
       THEN <<x>> \o sorted
       ELSE <<Head(sorted)>> \o insert_sorted(Tail(sorted), x)

RECURSIVE sort_onto(_, _)
sort_onto(sorted, rest) ==
  IF rest = <<>> THEN sorted
  ELSE sort_onto(insert_sorted(sorted, Head(rest)), Tail(rest))

sort_by(pairs) == sort_onto(<<>>, pairs)

\* lines 224-229
RECURSIVE format_values(_, _)
format_values(values, i) ==
  IF i > Len(values) THEN <<>>
  ELSE values[i]
         \o (IF i # Len(values) THEN <<" ", "/", " ">> ELSE <<>>)
         \o format_values(values, i + 1)

\* lines 218-230
format_line(key, values, sep) ==
  key \o <<" ", sep, " ">> \o format_values(values, 1) \o <<"\n">>

\* lines 216-232
RECURSIVE format_output(_, _)
format_output(pairs, sep) ==
  IF pairs = <<>> THEN <<>>
  ELSE format_line(Head(pairs)[1], Head(pairs)[2], sep)
         \o format_output(Tail(pairs), sep)

\* the orders in which HashMap::iter can yield the entries of res
iter_orders(res) ==
  LET n == Cardinality(DOMAIN res)
  IN  {[i \in 1..n |-> <<p[i], res[p[i]]>>] :
         p \in {q \in [1..n -> DOMAIN res] :
                  \A i, j \in 1..n : q[i] = q[j] => i = j}}

\* ------------------------------------------------------------------ inputs
RECURSIVE join(_, _)
join(pieces, delim) ==
  IF pieces = <<>> THEN <<>>
  ELSE IF Len(pieces) = 1 THEN pieces[1]
  ELSE pieces[1] \o delim \o join(Tail(pieces), delim)

ExpandChars == {"a", "/", "(", ")", " "}
ExpandInputs == UNION {[1..n -> ExpandChars] : n \in 0..MaxLen}
\* the depths of the outermost call: the top level, and one call above the bound
StartDepths == {0, MAX_DEPTH - 1}

Questions == {<<"a">>, <<"A">>, <<"b">>}
AnswerAlts == {<<"a">>, <<"A">>, <<"b">>}
\* the answer fields of n alternatives
AnswerFields(n) == {join(t, <<"/">>) : t \in [1..n -> AnswerAlts]}
\* the lines "question = answer" whose answer field has n alternatives
GoodLines(n) == {q \o <<" ", "=", " ">> \o a : q \in Questions, a \in AnswerFields(n)}
BadLines == {<<>>, <<"a", "=", "b", "=", "a">>}
\* the lines of size n: a malformed line has size 1
LinesOfSize(n) == GoodLines(n) \cup (IF n = 1 THEN BadLines ELSE {})
\* the sequences of lines of total size at most n
RECURSIVE LineSeqs(_)
LineSeqs(n) ==
  {<<>>} \cup UNION {{<<l>> \o t : l \in LinesOfSize(k), t \in LineSeqs(n - k)} : k \in 1..n}
InputTexts == {join(t, <<"\n">>) : t \in LineSeqs(MaxSize)}
Seperators == {"="}

\* ------------------------------------------------------------------- state
VARIABLES
  input, seperator, keep_original,   \* main: the text read and the options
  pc,                                \* position in main
  line_no, parsed,                   \* parse_pairs: next line, its results
  err,                               \* the Err main returns, <<>> if none
  list, item_no,                     \* the parsed items, next item to combine
  results,                           \* the HashMap of main
  iter, sorted_results, output,      \* lines 210-232
  file,                              \* the output file: [written, text]
  e_input, e_slash, e_depth, e_keep, \* arguments of the outermost recurse_parts
  e_pc, stack, e_result,             \* its call stack and return value
  truncated                          \* a call returned at MAX_DEPTH unsplit

pipe_vars == <<input, seperator, keep_original, pc, line_no, parsed, err, list,
               item_no, results, iter, sorted_results, output, file>>
expand_vars == <<e_input, e_slash, e_depth, e_keep, e_pc, stack, e_result, truncated>>
vars == <<pipe_vars, expand_vars>>

no_results == [k \in {} |-> <<>>]
no_file == [written |-> FALSE, text |-> <<>>]

PipeIdle ==
  /\ input = <<>> /\ seperator = "=" /\ keep_original = FALSE /\ pc = "off"
  /\ line_no = 1 /\ parsed = <<>> /\ err = <<>> /\ list = <<>> /\ item_no = 1
  /\ results = no_results /\ iter = <<>> /\ sorted_results = <<>>
  /\ output = <<>> /\ file = no_file

ExpandIdle ==
  /\ e_input = <<>> /\ e_slash = FALSE /\ e_depth = 0 /\ e_keep = FALSE
  /\ e_pc = "off" /\ stack = <<>> /\ e_result = <<>> /\ truncated = FALSE

\* ------------------------------------------------------- main, step by step
Init ==
  /\ input \in InputTexts
  /\ seperator \in Seperators
  /\ keep_original \in BOOLEAN
  /\ pc = "parse"
  /\ line_no = 1 /\ parsed = <<>> /\ err = <<>> /\ list = <<>> /\ item_no = 1
  /\ results = no_results /\ iter = <<>> /\ sorted_results = <<>>
  /\ output = <<>> /\ file = no_file
  /\ ExpandIdle

\* one iteration of the loop of parse_pairs on a well-formed line
ParseLine ==
  /\ pc = "parse" /\ line_no <= Len(lines(input))
  /\ LET parts == split(lines(input)[line_no], seperator)
     IN  /\ line_ok(parts)
         /\ parsed' = Append(parsed, parse_line(parts, keep_original))
  /\ line_no' = line_no + 1
  /\ UNCHANGED <<input, seperator, keep_original, pc, err, list, item_no, results,
                 iter, sorted_results, output, file, expand_vars>>

\* lines 112-117 and the ? of line 191: main returns the Err
ParseError ==
  /\ pc = "parse" /\ line_no <= Len(lines(input))
  /\ ~line_ok(split(lines(input)[line_no], seperator))
  /\ err' = line_error(seperator, lines(input)[line_no])
  /\ pc' = "error"
  /\ UNCHANGED <<input, seperator, keep_original, line_no, parsed, list, item_no,
                 results, iter, sorted_results, output, file, expand_vars>>

\* line 131 and the binding of line 191
ParseReturn ==
  /\ pc = "parse" /\ line_no > Len(lines(input))
  /\ list' = parsed
  /\ pc' = "combine"
  /\ UNCHANGED <<input, seperator, keep_original, line_no, parsed, err, item_no,
                 results, iter, sorted_results, output, file, expand_vars>>

\* lines 194-208, one item
CombineItem ==
  /\ pc = "combine" /\ item_no <= Len(list)
  /\ results' = combine_item(results, list[item_no])
  /\ item_no' = item_no + 1
  /\ UNCHANGED <<input, seperator, keep_original, pc, line_no, parsed, err, list,
                 iter, sorted_results, output, file, expand_vars>>

\* lines 210-213: the entries in the order the hash map iterates them
Collect ==
  /\ pc = "combine" /\ item_no > Len(list)
  /\ iter' \in iter_orders(results)
  /\ pc' = "sort"
  /\ UNCHANGED <<input, seperator, keep_original, line_no, parsed, err, list,
                 item_no, results, sorted_results, output, file, expand_vars>>

\* line 214
Sort ==
  /\ pc = "sort"
  /\ sorted_results' = sort_by(iter)
  /\ pc' = "format"
  /\ UNCHANGED <<input, seperator, keep_original, line_no, parsed, err, list,
                 item_no, results, iter, output, file, expand_vars>>

\* lines 216-232
Format ==
  /\ pc = "format"
  /\ output' = format_output(sorted_results, seperator)
  /\ pc' = "write"
  /\ UNCHANGED <<input, seperator, keep_original, line_no, parsed, err, list,
                 item_no, results, iter, sorted_results, file, expand_vars>>

\* line 234
Write ==
  /\ pc = "write"
  /\ file' = [written |-> TRUE, text |-> output]
  /\ pc' = "done"
  /\ UNCHANGED <<input, seperator, keep_original, line_no, parsed, err, list,
                 item_no, results, iter, sorted_results, output, expand_vars>>

Next ==
  \/ ParseLine \/ ParseError \/ ParseReturn \/ CombineItem
  \/ Collect \/ Sort \/ Format \/ Write

Spec == Init /\ [][Next]_vars

\* -------------------------------------------- recurse_parts, call by call
\* the activation record of one call, its parts already split (lines 80-87)
new_frame(inp, slash, depth) ==
  [input |-> inp, slash |-> slash, depth |-> depth,
   parts |-> divide(inp, slash), idx |-> 1, results |-> <<>>]

top == stack[Len(stack)]

\* the return of line 105: the caller appends the value (line 92), the
\* outermost call hands it to its caller
return_value(r) ==
  IF Len(stack) = 1
  THEN /\ stack' = <<>>
       /\ e_result' = r
       /\ e_pc' = "done"
  ELSE /\ stack' = [SubSeq(stack, 1, Len(stack) - 1)
                      EXCEPT ![Len(stack) - 1].results = @ \o r]
       /\ UNCHANGED <<e_result, e_pc>>

InitExpand ==
  /\ PipeIdle
  /\ e_input \in ExpandInputs
  /\ e_slash \in BOOLEAN
  /\ e_depth \in StartDepths
  /\ e_keep \in BOOLEAN
  /\ e_pc = "start" /\ stack = <<>> /\ e_result = <<>> /\ truncated = FALSE

ExInvoke ==
  /\ e_pc = "start"
  /\ stack' = <<new_frame(e_input, e_slash, e_depth)>>
  /\ e_pc' = "run"
  /\ UNCHANGED <<pipe_vars, e_input, e_slash, e_depth, e_keep, e_result, truncated>>

\* lines 88-89
ExBase ==
  /\ e_pc = "run"
  /\ is_base(top.parts, top.depth)
  /\ return_value(top.parts)
  /\ truncated' = (truncated \/ Len(top.parts) # 1)
  /\ UNCHANGED <<pipe_vars, e_input, e_slash, e_depth, e_keep>>

\* lines 91-92: the call for the next part
ExRecurse ==
  /\ e_pc = "run"
  /\ ~is_base(top.parts, top.depth)
  /\ top.idx <= Len(top.parts)
  /\ stack' = [stack EXCEPT ![Len(stack)].idx = @ + 1]
                \o <<new_frame(top.parts[top.idx], ~top.slash, top.depth + 1)>>
  /\ UNCHANGED <<pipe_vars, e_input, e_slash, e_depth, e_keep, e_pc, e_result,
                 truncated>>

\* lines 94-105
ExFinish ==
  /\ e_pc = "run"
  /\ ~is_base(top.parts, top.depth)
  /\ top.idx > Len(top.parts)
  /\ return_value(top.results
        \o (IF append_current(top.depth, e_keep) THEN <<top.input>> ELSE <<>>))
  /\ UNCHANGED <<pipe_vars, e_input, e_slash, e_depth, e_keep, truncated>>

NextExpand == ExInvoke \/ ExBase \/ ExRecurse \/ ExFinish

\* the program is sequential: a call that can step does step
SpecExpand == InitExpand /\ [][NextExpand]_vars /\ WF_vars(NextExpand)

\* the stepwise calls compute what the function computes
ExpandAgrees ==
  e_pc = "done" => e_result = recurse_parts(e_input, e_slash, e_depth, e_keep)


\* ============================================================== properties
Elems(v) == {v[i] : i \in 1..Len(v)}
Frames == Elems(stack)
IsPrefix(a, b) == Len(a) <= Len(b) /\ SubSeq(b, 1, Len(a)) = a

RECURSIVE FirstOccurrences(_)
FirstOccurrences(v) ==
  IF v = <<>> THEN <<>>
  ELSE LET front == FirstOccurrences(SubSeq(v, 1, Len(v) - 1))
       IN  IF v[Len(v)] \in Elems(front) THEN front
           ELSE Append(front, v[Len(v)])

Combining == pc \in {"combine", "sort", "format", "write", "done"}

\* the lower-cased answers of the items combined so far that have a question
\* variant lower-casing to k, in input order
RECURSIVE AnswersSeen(_, _)
AnswersSeen(k, n) ==
  IF n = 0 THEN <<>>
  ELSE AnswersSeen(k, n - 1)
         \o (IF \E q \in Elems(list[n].questions) : to_lowercase(q) = k
             THEN [i \in 1..Len(list[n].answers) |-> to_lowercase(list[n].answers[i])]
             ELSE <<>>)

SepCount(line) == Cardinality({i \in 1..Len(line) : line[i] = seperator})
BadLinesOf(ls) == {n \in 1..Len(ls) : SepCount(ls[n]) # 1}

\* number of c among positions i..j of s
Count(s, c, i, j) == Cardinality({k \in i..j : s[k] = c})
\* opening minus closing parentheses in front of position i
DepthBefore(s, i) == Count(s, "(", 1, i - 1) - Count(s, ")", 1, i - 1)

\* s[i] is a "(" and s[j] the ")" that closes it
Matches(s, i, j) ==
  /\ i < j /\ s[i] = "(" /\ s[j] = ")"
  /\ Count(s, "(", i, j) = Count(s, ")", i, j)
  /\ \A k \in i..(j - 1) : Count(s, "(", i, k) > Count(s, ")", i, k)

InsidePair(s, n) ==
  \E i \in 1..(n - 1), j \in (n + 1)..Len(s) : Matches(s, i, j)

\* i..j is a top-level group: opened at depth 0, closed back to depth 0
IsGroup(s, i, j) ==
  /\ i < j /\ s[i] = "(" /\ s[j] = ")"
  /\ DepthBefore(s, i) = 0 /\ DepthBefore(s, j) = 1
  /\ \A k \in (i + 1)..j : DepthBefore(s, k) >= 1

HasTopGroup(s) == \E i, j \in 1..Len(s) : IsGroup(s, i, j)
InGroup(s, n) == \E i \in 1..n, j \in n..Len(s) : IsGroup(s, i, j)

WithoutGroups(s) ==
  LET kept == {k \in 1..Len(s) : ~InGroup(s, k)}
  IN  [r \in 1..Cardinality(kept) |->
         s[CHOOSE k \in kept : Cardinality({m \in kept : m <= k}) = r]]

Plain(s) == ~contains(s, "/") /\ ~contains(s, "(")

\* the call PairParser makes for a field (lines 118-124)
FromParser ==
  e_pc # "off" /\ e_depth = 0 /\ e_slash = contains(e_input, "/")
  /\ trim(e_input) = e_input

\* ---------------------------------------------------------------------- C1
\* C1: no value sequence of the combined mapping holds two case-equal
\* entries, whatever items have been combined.
C1_NoCaseEqualValues ==
  \A k \in DOMAIN results : \A i, j \in 1..Len(results[k]) :
    to_lowercase(results[k][i]) = to_lowercase(results[k][j]) => i = j

\* ---------------------------------------------------------------------- C2
C2_KeysMerged ==
  Combining =>
    /\ DOMAIN results =
         {to_lowercase(q) : q \in UNION {Elems(list[n].questions) : n \in 1..(item_no - 1)}}
    /\ \A k \in DOMAIN results :
         FirstOccurrences(results[k]) = FirstOccurrences(AnswersSeen(k, item_no - 1))

C2_NothingRemoved ==
  \A k \in DOMAIN results :
    k \in DOMAIN results' /\ IsPrefix(results[k], results'[k])

C3_FirstBadLineAborts ==
  LET ls  == lines(input)
      bad == BadLinesOf(ls)
  IN  /\ bad # {} =>
           /\ pc \in {"parse", "error"}
           /\ line_no <= MinOf(bad)
           /\ list = <<>> /\ results = no_results /\ ~file.written
      /\ pc = "error" =>
           /\ bad # {}
           /\ err = <<"Invalid number of seperators '", seperator, "' on line: '">>
                      \o ls[MinOf(bad)] \o <<"'!">>

C3_Witness ==
  /\ pc = "error" /\ line_no = 2 /\ Len(parsed) = 1
  /\ lines(input)[2] = <<"a", "=", "b", "=", "a">>

\* ---------------------------------------------------------------------- C4
\* C4: the text written is the same for every order in which the hash map
\* can iterate its entries.
C4_OutputDeterministic ==
  pc = "done" =>
    \A o \in iter_orders(results) :
      format_output(sort_by(o), seperator) = file.text

C4_Witness ==
  /\ pc = "done" /\ Len(iter) = 2 /\ iter # sorted_results
  /\ file.written /\ file.text # <<>>

\* ---------------------------------------------------------------------- C5
\* C5: an input whose non-blank lines each hold exactly one separator is
\* parsed without error, blank lines included.
C5_BlankLinesAccepted ==
  (\A n \in 1..Len(lines(input)) :
     lines(input)[n] # <<>> => SepCount(lines(input)[n]) = 1)
  => pc # "error"

\* ---------------------------------------------------------------------- C6
\* C6 as stated: a string without "/" and "(" expands, in either mode and at
\* any depth, to exactly one variant, the trimmed input.
C6_PlainGivesTrimmed ==
  (e_pc = "done" /\ Plain(e_input)) => e_result = <<trim(e_input)>>

\* C6 amended: a string without "/" and "(" expands to exactly one variant:
\* the trimmed input in slash mode, the input unchanged in parenthesis mode.
C6_PlainGivesOneVariant ==
  (e_pc = "done" /\ Plain(e_input)) =>
    e_result = <<IF e_slash THEN trim(e_input) ELSE e_input>>

C6_Witness ==
  /\ e_pc = "done" /\ e_slash /\ e_input = <<" ", "a", ")", " ">>
  /\ e_result = << <<"a", ")">> >>

\* ---------------------------------------------------------------------- C7
\* C7: no split point of divide_slash lies between a "(" and its matching
\* ")", for balanced and unbalanced strings alike.
C7_NoSplitInsidePair ==
  \A f \in Frames :
    f.slash => \A n \in Elems(slash_places(f.input, 1, 0, <<>>)) :
                 ~InsidePair(f.input, n)

\* ---------------------------------------------------------------------- C8
GroupedField ==
  /\ e_pc = "done" /\ e_depth = 0 /\ ~e_slash
  /\ ~contains(e_input, "/") /\ HasTopGroup(e_input)
  /\ trim(e_input) = e_input

\* C8 as stated: parenthesis mode at depth 0 on a field with top-level groups
\* and no "/" gives exactly the original and the field without its groups,
\* whatever the retain-original flag.
C8_TwoVariants ==
  GroupedField => e_result = <<e_input, trim(WithoutGroups(e_input))>>

\* C8 amended: it gives the original, then the field without its top-level
\* groups, and, when the retain-original flag is set, the original again.
C8_TwoVariantsPlusOriginal ==
  GroupedField =>
    e_result = <<e_input, trim(WithoutGroups(e_input))>>
                 \o (IF e_keep THEN <<e_input>> ELSE <<>>)

C8_Witness ==
  /\ GroupedField /\ e_keep /\ e_input = <<"(", ")", "(", ")">>
  /\ e_result = <<e_input, <<>>, e_input>>

\* ---------------------------------------------------------------------- C9
C9_DepthBounded == \A f \in Frames : f.depth <= MAX_DEPTH

C9_ReturnsAtBound ==
  (e_pc = "run" /\ top.depth >= MAX_DEPTH) =>
    IF Len(stack) = 1
    THEN e_pc' = "done" /\ e_result' = divide(top.input, top.slash)
    ELSE /\ Len(stack') = Len(stack) - 1
         /\ stack'[Len(stack')].results =
              stack[Len(stack) - 1].results \o divide(top.input, top.slash)

\* C9: every expansion terminates, no call of recurse_parts runs at a depth
\* above MAX_DEPTH, and a call at MAX_DEPTH returns its parts unexpanded.
C9_TerminatesWithinDepth ==
  /\ [](C9_DepthBounded)
  /\ [][C9_ReturnsAtBound]_vars
  /\ <>(e_pc = "done")

C9_Witness ==
  /\ e_pc = "done" /\ truncated /\ e_depth = MAX_DEPTH - 1
  /\ Len(e_result) > 2

\* --------------------------------------------------------------------- C10
AllowedVariants(field) ==
  {field} \cup UNION {{p, trim(WithoutGroups(p))} : p \in Elems(divide_slash(field))}

\* C10: called as PairParser calls it, recurse_parts never runs deeper than
\* depth 2, never takes the MAX_DEPTH branch, and yields only the field, its
\* top-level "/" parts and those parts without their top-level groups.
C10_ShallowFromParser ==
  FromParser =>
    /\ \A f \in Frames : f.depth <= 2
    /\ ~truncated
    /\ e_pc = "done" => Elems(e_result) \subseteq AllowedVariants(e_input)

C10_Witness ==
  /\ FromParser /\ e_input = <<"/", "(", "/", ")">>
  /\ \E f \in Frames : f.depth = 2 /\ f.input = <<"(", "/", ")">>

====
